---- MODULE Spec2Model ----
(***************************************************************************)
(* Model of swingtrend/Swing.py: the Swing trend engine.                   *)
(*                                                                         *)
(* An engine is a record holding the attributes of one Swing instance.     *)
(* "keys" is the set of names present in the instance __dict__; an         *)
(* attribute that is not in keys reads the class attribute (None), or, if  *)
(* the class has no such attribute, does not exist (NoAttr).               *)
(* Prices are positive integers, timestamps are bar numbers.               *)
(* retrace_threshold holds the fraction retrace_threshold_pct / 100 as its *)
(* numerator over ThresholdDen; comparisons with a retracement fraction    *)
(* are made by cross-multiplication, which is exact for these inputs.      *)
(***************************************************************************)
EXTENDS Integers, Sequences, FiniteSets, TLC

VARIABLES eng, calls, err, bar, prev, op, clock, pc, left, twin, twinCalls, twinErr, mode,
          seen

vars == <<eng, calls, err, bar, prev, op, clock, pc, left, twin, twinCalls, twinErr, mode,
          seen>>

\* ---------------------------------------------------------------- bounds
MaxPrice == 4
MaxBars == 4
MaxDf == 2
MaxXferBars == 2
MaxSidePrice == 2
MaxSideBars == 23
MaxRunPrice == 3

Prices == 1..MaxPrice

SidePrices == 1..MaxSidePrice

RunPrices == 1..MaxRunPrice

\* well-formed bars: low <= close <= high
Bars == {b \in [high : Prices, low : Prices, close : Prices] :
            b.low <= b.close /\ b.close <= b.high}

\* ------------------------------------------------------- program constants
None == -1
NoTrend == "None"
NoSymbol == "None"
ThresholdDen == 100
LineSpan == 15
DefaultRetracePct == 5
SidewaysDefault == 20

\* constructor arguments explored: filter disabled (None), 5.0 (default), 50.0
RetracePcts == {None, DefaultRetracePct, 50}

NoDf == [bound |-> FALSE, first |-> 0, len |-> 0]

\* the value of an attribute that has no class attribute and has not been
\* assigned: the instance has no such attribute and reading it raises
\* AttributeError
NoAttr == -2

\* ---------------------------------------------------------------- helpers
Truthy(x) == x # None /\ x # 0

Abs(x) == IF x < 0 THEN -x ELSE x

\* abs(num / den) < pct / ThresholdDen
AbsRatioLess(num, den, pct) == Abs(num) * ThresholdDen < pct * Abs(den)

\* num / den < pct / ThresholdDen
RatioLess(num, den, pct) ==
    IF den > 0 THEN num * ThresholdDen < pct * den
               ELSE num * ThresholdDen > pct * den

\* self.__dict__.update(upd): attribute assignment for every name in DOMAIN upd.
\* A single assignment self.f = v is written [e EXCEPT !.f = v, !.keys = @ \cup {"f"}].
Assign(e, upd) ==
    [f \in DOMAIN e |->
        IF f = "keys" THEN e.keys \cup DOMAIN upd
        ELSE IF f \in DOMAIN upd THEN upd[f]
        ELSE e[f]]

\* class attributes: the value an attribute reads before it is assigned.
\* high_dt, low_dt, sideways_threshold, plot, plot_lines, plot_colors and the
\* bar counter have no class attribute: they exist once assigned (keys).
ClassDefaults ==
    [trend |-> NoTrend, df |-> NoDf,
     high |-> None, low |-> None, coc |-> None, sph |-> None, spl |-> None,
     retrace_threshold_pct |-> None,
     high_dt |-> NoAttr, low_dt |-> NoAttr,
     coc_dt |-> None, sph_dt |-> None, spl_dt |-> None,
     retrace_threshold |-> None, sideways_threshold |-> NoAttr,
     symbol |-> NoSymbol, on_reversal |-> FALSE, on_breakout |-> FALSE,
     plot |-> NoAttr, plot_lines |-> NoAttr, plot_colors |-> NoAttr,
     bars_since |-> NoAttr,
     keys |-> {}]

\* Swing.__init__(retrace_threshold_pct, sideways_threshold)
New(pct, sideways) ==
    LET e0 == [ClassDefaults EXCEPT !.keys = {"logger"}]
        e1 == IF Truthy(pct) THEN [e0 EXCEPT !.retrace_threshold = pct,
                                      !.keys = @ \cup {"retrace_threshold"}] ELSE e0
    IN  [e1 EXCEPT !.sideways_threshold = sideways, !.plot = FALSE, !.bars_since = 0,
            !.keys = @ \cup {"sideways_threshold", "plot", "bars_since"}]

\* the caller registers callbacks: swing.on_breakout = f, swing.on_reversal = g
SetHooks(e, brk, rev) ==
    LET e1 == IF brk THEN [e EXCEPT !.on_breakout = TRUE, !.keys = @ \cup {"on_breakout"}] ELSE e
    IN  IF rev THEN [e1 EXCEPT !.on_reversal = TRUE, !.keys = @ \cup {"on_reversal"}] ELSE e1

is_sideways(e) == e.bars_since > e.sideways_threshold

\* result of one call: the engine, the callbacks invoked, the exception raised
Ok(e) == [e |-> e, calls |-> <<>>, err |-> "none"]
Raise(e, x) == [e |-> e, calls |-> <<>>, err |-> x]

\* a callback invocation: its arguments and the engine state it can observe
Call(hook, e, dt, close, a5, a6) ==
    [hook |-> hook, args |-> <<e.symbol, dt, e.trend, close, a5, a6>>, seen |-> e]

\* Swing.__line_end_dt: "none" or the exception raised
LineEndErr(e, dt) ==
    IF ~e.df.bound THEN "ValueError"
    ELSE IF ~(dt > e.df.first /\ dt <= e.df.first + e.df.len) THEN "KeyError"
    ELSE "none"

Min(a, b) == IF a < b THEN a ELSE b

\* Swing.__line_end_dt: the timestamp LineSpan bars after dt, clamped to the last bar
LineEndDt(e, dt) ==
    LET idx == dt - e.df.first - 1
    IN  e.df.first + 1 + Min(idx + LineSpan, e.df.len - 1)

\* if self.plot: record the CoCh line and its colour
Annotate(e, color) ==
    IF ~e.plot THEN Ok(e)
    ELSE IF LineEndErr(e, e.coc_dt) # "none" THEN Raise(e, LineEndErr(e, e.coc_dt))
    ELSE Ok([e EXCEPT !.plot_lines =
                        Append(e.plot_lines,
                               <<<<e.coc_dt, e.coc>>, <<LineEndDt(e, e.coc_dt), e.coc>>>>),
                !.plot_colors = Append(e.plot_colors, color),
                !.keys = @ \cup {"plot_lines", "plot_colors"}])

\* ------------------------------------------------------------ Swing.identify
\* IdentifyUnset that widens the envelope only when no trend starts
IdentifyUnset_WidenElse(e, dt, high, low, close) ==
    IF e.high = None \/ e.low = None
    THEN Ok([e EXCEPT !.high = high, !.low = low, !.high_dt = dt, !.low_dt = dt,
                !.keys = @ \cup {"high", "low", "high_dt", "low_dt"}])
    ELSE LET e1 == IF close > e.high
                   THEN [e EXCEPT !.trend = "UP", !.high = high, !.high_dt = dt,
                            !.coc = e.low, !.coc_dt = e.low_dt,
                            !.keys = @ \cup {"trend", "high", "high_dt", "coc", "coc_dt"}]
                   ELSE IF close < e.low
                   THEN [e EXCEPT !.trend = "DOWN", !.low = low, !.low_dt = dt,
                            !.coc = e.high, !.coc_dt = e.high_dt,
                            !.keys = @ \cup {"trend", "low", "low_dt", "coc", "coc_dt"}]
                   ELSE e
             e2 == IF high > e1.high
                   THEN [e1 EXCEPT !.high = high, !.high_dt = dt,
                            !.keys = @ \cup {"high", "high_dt"}] ELSE e1
             e3 == IF low < e2.low
                   THEN [e2 EXCEPT !.low = low, !.low_dt = dt,
                            !.keys = @ \cup {"low", "low_dt"}] ELSE e2
         IN  IF e1.trend = NoTrend THEN Ok(e3) ELSE Ok(e1)

\* trend is None: seed the first bar, then wait for a close beyond it
IdentifyUnset(e, dt, high, low, close) ==
    IF e.high = None \/ e.low = None
    THEN Ok([e EXCEPT !.high = high, !.low = low, !.high_dt = dt, !.low_dt = dt,
                !.keys = @ \cup {"high", "low", "high_dt", "low_dt"}])
    ELSE LET e1 == IF close > e.high
                   THEN [e EXCEPT !.trend = "UP", !.high = high, !.high_dt = dt,
                            !.coc = e.low, !.coc_dt = e.low_dt,
                            !.keys = @ \cup {"trend", "high", "high_dt", "coc", "coc_dt"}]
                   ELSE IF close < e.low
                   THEN [e EXCEPT !.trend = "DOWN", !.low = low, !.low_dt = dt,
                            !.coc = e.high, !.coc_dt = e.high_dt,
                            !.keys = @ \cup {"trend", "low", "low_dt", "coc", "coc_dt"}]
                   ELSE e
             e2 == IF high > e1.high
                   THEN [e1 EXCEPT !.high = high, !.high_dt = dt,
                            !.keys = @ \cup {"high", "high_dt"}] ELSE e1
             e3 == IF low < e2.low
                   THEN [e2 EXCEPT !.low = low, !.low_dt = dt,
                            !.keys = @ \cup {"low", "low_dt"}] ELSE e2
         IN  Ok(e3)

\* switch_downtrend that clears the tracked high before it takes coc from it
switch_downtrend_ClearFirst(e, dt, low) ==
    LET e1 == [e EXCEPT !.trend = "DOWN", !.coc = None, !.coc_dt = e.high_dt,
                  !.keys = @ \cup {"trend", "coc", "coc_dt"}]
        e2 == [e1 EXCEPT !.high = None, !.sph = None, !.sph_dt = None, !.low = low,
                  !.low_dt = dt, !.bars_since = 0,
                  !.keys = @ \cup {"high", "sph", "sph_dt", "low", "low_dt", "bars_since"}]
    IN  Annotate(e2, "r")

\* switch_downtrend that forgets to clear the pending pivot
switch_downtrend_KeepSph(e, dt, low) ==
    LET e1 == [e EXCEPT !.trend = "DOWN", !.coc = e.high, !.coc_dt = e.high_dt,
                  !.keys = @ \cup {"trend", "coc", "coc_dt"}]
        e2 == [e1 EXCEPT !.high = None, !.low = low, !.low_dt = dt, !.bars_since = 0,
                  !.keys = @ \cup {"high", "low", "low_dt", "bars_since"}]
    IN  Annotate(e2, "r")

\* Swing.__switch_downtrend
switch_downtrend(e, dt, low) ==
    LET e1 == [e EXCEPT !.trend = "DOWN", !.coc = e.high, !.coc_dt = e.high_dt,
                  !.keys = @ \cup {"trend", "coc", "coc_dt"}]
        e2 == [e1 EXCEPT !.high = None, !.sph = None, !.sph_dt = None, !.low = low,
                  !.low_dt = dt, !.bars_since = 0,
                  !.keys = @ \cup {"high", "sph", "sph_dt", "low", "low_dt", "bars_since"}]
    IN  Annotate(e2, "r")

\* switch_uptrend that takes the new coc from the bar's high, not the tracked low
switch_uptrend_CocFromBar(e, dt, high) ==
    LET e1 == [e EXCEPT !.trend = "UP", !.coc = high, !.coc_dt = dt,
                  !.keys = @ \cup {"trend", "coc", "coc_dt"}]
        e2 == [e1 EXCEPT !.low = None, !.spl = None, !.spl_dt = None, !.high = high,
                  !.high_dt = dt, !.bars_since = 0,
                  !.keys = @ \cup {"low", "spl", "spl_dt", "high", "high_dt", "bars_since"}]
    IN  Annotate(e2, "g")

\* Swing.__switch_uptrend
switch_uptrend(e, dt, high) ==
    LET e1 == [e EXCEPT !.trend = "UP", !.coc = e.low, !.coc_dt = e.low_dt,
                  !.keys = @ \cup {"trend", "coc", "coc_dt"}]
        e2 == [e1 EXCEPT !.low = None, !.spl = None, !.spl_dt = None, !.high = high,
                  !.high_dt = dt, !.bars_since = 0,
                  !.keys = @ \cup {"low", "spl", "spl_dt", "high", "high_dt", "bars_since"}]
    IN  Annotate(e2, "g")

\* on_reversal that receives the broken level in both positions
ReversalCall_OldTwice(r, dt, close, price_level) ==
    IF r.err # "none" THEN r
    ELSE IF r.e.on_reversal
    THEN [r EXCEPT !.calls =
            <<Call("on_reversal", r.e, dt, close, price_level, price_level)>>]
    ELSE r

\* after the switch r: if self.on_reversal: self.on_reversal(symbol, dt, trend,
\* close, self.coc, price_level); an exception of the switch skips it
ReversalCall(r, dt, close, price_level) ==
    IF r.err # "none" THEN r
    ELSE IF r.e.on_reversal
    THEN [r EXCEPT !.calls =
            <<Call("on_reversal", r.e, dt, close, r.e.coc, price_level)>>]
    ELSE r

\* UP: if self.coc and close < self.coc: price_level = self.coc, switch, on_reversal
UpReversal(e, dt, low, close) ==
    IF Truthy(e.coc) /\ close < e.coc
    THEN ReversalCall(switch_downtrend(e, dt, low), dt, close, e.coc)
    ELSE Ok(e)

\* DOWN: if self.coc and close > self.coc: price_level = self.coc, switch, on_reversal
DownReversal(e, dt, high, close) ==
    IF Truthy(e.coc) /\ close > e.coc
    THEN ReversalCall(switch_uptrend(e, dt, high), dt, close, e.coc)
    ELSE Ok(e)

\* UpPending that does not count the bar
UpPending_NoCount(e, dt, high, low) ==
    [e EXCEPT !.bars_since = e.bars_since,
              !.high = IF Truthy(e.high) /\ high > e.high THEN high ELSE e.high,
              !.high_dt = IF Truthy(e.high) /\ high > e.high THEN dt ELSE e.high_dt,
              !.low = IF e.low = None \/ low < e.low THEN low ELSE e.low,
              !.low_dt = IF e.low = None \/ low < e.low THEN dt ELSE e.low_dt,
              !.keys = @ \cup {"bars_since"}
                         \cup (IF Truthy(e.high) /\ high > e.high
                               THEN {"high", "high_dt"} ELSE {})
                         \cup (IF e.low = None \/ low < e.low
                               THEN {"low", "low_dt"} ELSE {})]

\* UP, sph pending: count the bar and extend the extremes since the pivot
UpPending(e, dt, high, low) ==
    [e EXCEPT !.bars_since = e.bars_since + 1,
              !.high = IF Truthy(e.high) /\ high > e.high THEN high ELSE e.high,
              !.high_dt = IF Truthy(e.high) /\ high > e.high THEN dt ELSE e.high_dt,
              !.low = IF e.low = None \/ low < e.low THEN low ELSE e.low,
              !.low_dt = IF e.low = None \/ low < e.low THEN dt ELSE e.low_dt,
              !.keys = @ \cup {"bars_since"}
                         \cup (IF Truthy(e.high) /\ high > e.high
                               THEN {"high", "high_dt"} ELSE {})
                         \cup (IF e.low = None \/ low < e.low
                               THEN {"low", "low_dt"} ELSE {})]

\* DOWN, spl pending: count the bar and extend the extremes since the pivot
DownPending(e, dt, high, low) ==
    [e EXCEPT !.bars_since = e.bars_since + 1,
              !.low = IF Truthy(e.low) /\ low < e.low THEN low ELSE e.low,
              !.low_dt = IF Truthy(e.low) /\ low < e.low THEN dt ELSE e.low_dt,
              !.high = IF e.high = None \/ high > e.high THEN high ELSE e.high,
              !.high_dt = IF e.high = None \/ high > e.high THEN dt ELSE e.high_dt,
              !.keys = @ \cup {"bars_since"}
                         \cup (IF Truthy(e.low) /\ low < e.low
                               THEN {"low", "low_dt"} ELSE {})
                         \cup (IF e.high = None \/ high > e.high
                               THEN {"high", "high_dt"} ELSE {})]

\* retrace filter with the comparison inverted
UpFiltered_Inverted(e) ==
    Truthy(e.retrace_threshold)
        /\ ~AbsRatioLess(e.low - e.sph, e.sph, e.retrace_threshold)

\* UP, close > sph: retrace filter
UpFiltered(e) ==
    Truthy(e.retrace_threshold)
        /\ AbsRatioLess(e.low - e.sph, e.sph, e.retrace_threshold)

\* DOWN, close < spl: retrace filter
DownFiltered(e) ==
    Truthy(e.retrace_threshold)
        /\ RatioLess(e.high - e.spl, e.spl, e.retrace_threshold)

\* after the annotation r: if self.on_breakout: self.on_breakout(symbol, dt,
\* trend, close, pivot, self.coc); an exception of the annotation skips it
BreakoutCall(r, dt, close, pivot) ==
    IF r.err # "none" THEN r
    ELSE IF r.e.on_breakout
    THEN [r EXCEPT !.calls = <<Call("on_breakout", r.e, dt, close, pivot, r.e.coc)>>]
    ELSE r

\* ClearSph that leaves the counter running
ClearSph_KeepCounter(e) ==
    [e EXCEPT !.sph = None, !.sph_dt = None, !.keys = @ \cup {"sph", "sph_dt"}]

\* the pending pivot is cleared: self.sph = self.sph_dt = None, counter 0
ClearSph(e) ==
    [e EXCEPT !.sph = None, !.sph_dt = None, !.bars_since = 0,
              !.keys = @ \cup {"sph", "sph_dt", "bars_since"}]

\* the pending pivot is cleared: self.spl = self.spl_dt = None, counter 0
ClearSpl(e) ==
    [e EXCEPT !.spl = None, !.spl_dt = None, !.bars_since = 0,
              !.keys = @ \cup {"spl", "spl_dt", "bars_since"}]

\* UP: self.coc = self.low; self.coc_dt = self.low_dt
CocFromLow(e) ==
    [e EXCEPT !.coc = e.low, !.coc_dt = e.low_dt, !.keys = @ \cup {"coc", "coc_dt"}]

\* CocFromHigh that leaves the timestamp of the old level
CocFromHigh_KeepDt(e) ==
    [e EXCEPT !.coc = e.high, !.keys = @ \cup {"coc", "coc_dt"}]

\* DOWN: self.coc = self.high; self.coc_dt = self.high_dt
CocFromHigh(e) ==
    [e EXCEPT !.coc = e.high, !.coc_dt = e.high_dt, !.keys = @ \cup {"coc", "coc_dt"}]

\* UpBreakout that invokes on_breakout before it moves coc
UpBreakout_CallbackFirst(e, dt, close) ==
    IF UpFiltered(e) THEN Ok(ClearSph(e))
    ELSE LET r == Annotate(CocFromLow(ClearSph(e)), "g")
         IN  IF r.err # "none" \/ ~e.on_breakout THEN r
             ELSE [r EXCEPT !.calls =
                     <<Call("on_breakout", ClearSph(e), dt, close, e.sph, e.low)>>]

\* UP, close > sph: break of structure
UpBreakout(e, dt, close) ==
    IF UpFiltered(e) THEN Ok(ClearSph(e))
    ELSE BreakoutCall(Annotate(CocFromLow(ClearSph(e)), "g"), dt, close, e.sph)

\* DOWN, close < spl: break of structure
DownBreakout(e, dt, close) ==
    IF DownFiltered(e) THEN Ok(ClearSpl(e))
    ELSE BreakoutCall(Annotate(CocFromHigh(ClearSpl(e)), "r"), dt, close, e.spl)

\* UP, no new high: if self.sph is None, the tracked high becomes the pivot
FormSph(e) ==
    IF e.sph = None
    THEN [e EXCEPT !.sph = e.high, !.sph_dt = e.high_dt, !.low = None,
                   !.low_dt = None, !.bars_since = 0,
                   !.keys = @ \cup {"sph", "sph_dt", "low", "low_dt", "bars_since"}]
    ELSE e

\* DOWN, no new low: if self.spl is None, the tracked low becomes the pivot
FormSpl(e) ==
    IF e.spl = None
    THEN [e EXCEPT !.spl = e.low, !.spl_dt = e.low_dt, !.high = None,
                   !.high_dt = None, !.bars_since = 0,
                   !.keys = @ \cup {"spl", "spl_dt", "high", "high_dt", "bars_since"}]
    ELSE e

\* WidenLow that does not count the bar
WidenLow_NoCount(e, dt, low) ==
    IF e.low = None \/ low < e.low
    THEN [e EXCEPT !.low = low, !.low_dt = dt, !.keys = @ \cup {"low", "low_dt"}]
    ELSE e

\* UP, no new high: a lower low widens the pullback and counts the bar
WidenLow(e, dt, low) ==
    IF e.low = None \/ low < e.low
    THEN [e EXCEPT !.low = low, !.low_dt = dt, !.bars_since = e.bars_since + 1,
                   !.keys = @ \cup {"low", "low_dt", "bars_since"}]
    ELSE e

\* WidenHigh that compares only, without the test for a cleared high
WidenHigh_CompareOnly(e, dt, high) ==
    IF e.high # None /\ high > e.high
    THEN [e EXCEPT !.high = high, !.high_dt = dt, !.bars_since = e.bars_since + 1,
                   !.keys = @ \cup {"high", "high_dt", "bars_since"}]
    ELSE e

\* DOWN, no new low: a higher high widens the pullback and counts the bar
WidenHigh(e, dt, high) ==
    IF e.high = None \/ high > e.high
    THEN [e EXCEPT !.high = high, !.high_dt = dt, !.bars_since = e.bars_since + 1,
                   !.keys = @ \cup {"high", "high_dt", "bars_since"}]
    ELSE e

\* UP: new high, or pivot formation and reversal watch
UpFormation(e, dt, high, low, close) ==
    IF Truthy(e.high) /\ high > e.high
    THEN Ok([e EXCEPT !.high = high, !.high_dt = dt, !.low = low, !.low_dt = dt,
                !.keys = @ \cup {"high", "high_dt", "low", "low_dt"}])
    ELSE UpReversal(WidenLow(FormSph(e), dt, low), dt, low, close)

\* DownFormation whose new-low branch leaves the tracked high alone
DownFormation_KeepHigh(e, dt, high, low, close) ==
    IF Truthy(e.low) /\ low < e.low
    THEN Ok([e EXCEPT !.low = low, !.low_dt = dt, !.keys = @ \cup {"low", "low_dt"}])
    ELSE DownReversal(WidenHigh(FormSpl(e), dt, high), dt, high, close)

\* DOWN: new low, or pivot formation and reversal watch
DownFormation(e, dt, high, low, close) ==
    IF Truthy(e.low) /\ low < e.low
    THEN Ok([e EXCEPT !.low = low, !.high = high, !.low_dt = dt, !.high_dt = dt,
                !.keys = @ \cup {"low", "high", "low_dt", "high_dt"}])
    ELSE DownReversal(WidenHigh(FormSpl(e), dt, high), dt, high, close)

\* UpBreakOrForm without the return that ends the breakout
UpBreakOrForm_NoReturn(e, dt, high, low, close) ==
    IF close > e.sph
    THEN LET r == UpBreakout(e, dt, close)
             f == UpFormation(r.e, dt, high, low, close)
         IN  IF r.err # "none" THEN r ELSE [f EXCEPT !.calls = r.calls \o f.calls]
    ELSE UpFormation(e, dt, high, low, close)

\* UP, sph pending, extremes extended: breakout on close > sph, else fall through
UpBreakOrForm(e, dt, high, low, close) ==
    IF close > e.sph THEN UpBreakout(e, dt, close)
    ELSE UpFormation(e, dt, high, low, close)

\* DOWN, spl pending, extremes extended: breakout on close < spl, else fall through
DownBreakOrForm(e, dt, high, low, close) ==
    IF close < e.spl THEN DownBreakout(e, dt, close)
    ELSE DownFormation(e, dt, high, low, close)

\* identify, trend == "UP" (the elif of the trend dispatch)
IdentifyUp(e, dt, high, low, close) ==
    IF Truthy(e.sph)
    THEN UpBreakOrForm(UpPending(e, dt, high, low), dt, high, low, close)
    ELSE UpFormation(e, dt, high, low, close)

\* identify, trend == "DOWN"
IdentifyDown(e, dt, high, low, close) ==
    IF Truthy(e.spl)
    THEN DownBreakOrForm(DownPending(e, dt, high, low), dt, high, low, close)
    ELSE DownFormation(e, dt, high, low, close)

\* Swing.identify(dt, high, low, close)
identify(e, dt, high, low, close) ==
    IF e.trend = NoTrend THEN IdentifyUnset(e, dt, high, low, close)
    ELSE IF e.trend = "UP" THEN IdentifyUp(e, dt, high, low, close)
    ELSE IdentifyDown(e, dt, high, low, close)

\* ------------------------------------------------- reset, pack, unpack, run
\* reset that leaves the CoCh level in place
reset_KeepCoc(e) ==
    LET e1 == [e EXCEPT !.high = None, !.low = None, !.trend = NoTrend, !.sph = None,
                  !.spl = None, !.high_dt = None, !.low_dt = None, !.sph_dt = None,
                  !.spl_dt = None,
                  !.keys = @ \cup {"high", "low", "trend", "sph", "spl",
                                   "high_dt", "low_dt", "sph_dt", "spl_dt"}]
        e2 == [e1 EXCEPT !.bars_since = 0, !.keys = @ \cup {"bars_since"}]
    IN  IF e2.plot
        THEN [e2 EXCEPT !.df = NoDf, !.plot_colors = <<>>, !.plot_lines = <<>>,
                 !.keys = @ \cup {"df", "plot_colors", "plot_lines"}]
        ELSE e2

\* Swing.reset
reset(e) ==
    LET e1 == [e EXCEPT !.high = None, !.low = None, !.trend = NoTrend, !.coc = None,
                  !.sph = None, !.spl = None, !.high_dt = None, !.low_dt = None,
                  !.coc_dt = None, !.sph_dt = None, !.spl_dt = None,
                  !.keys = @ \cup {"high", "low", "trend", "coc", "sph", "spl",
                                   "high_dt", "low_dt", "coc_dt", "sph_dt", "spl_dt"}]
        e2 == [e1 EXCEPT !.bars_since = 0, !.keys = @ \cup {"bars_since"}]
    IN  IF e2.plot
        THEN [e2 EXCEPT !.df = NoDf, !.plot_colors = <<>>, !.plot_lines = <<>>,
                 !.keys = @ \cup {"df", "plot_colors", "plot_lines"}]
        ELSE e2

\* pack that also drops the name-mangled bar counter
pack_NoCounter(e) ==
    [f \in (e.keys \ {"logger", "on_reversal", "on_breakout", "bars_since"}) |-> e[f]]

\* Swing.pack: the instance dict without logger and the callbacks
pack(e) ==
    [f \in (e.keys \ {"logger", "on_reversal", "on_breakout"}) |-> e[f]]

\* Swing.unpack: self.__dict__.update(data)
unpack(e, data) == Assign(e, data)

\* Swing.run, before its loop: bind the symbol and, with plot_lines, the history
RunSetup(e, sym, df, plot_lines) ==
    LET e1 == [e EXCEPT !.symbol = sym, !.keys = @ \cup {"symbol"}]
    IN  IF plot_lines
        THEN [e1 EXCEPT !.plot = TRUE, !.plot_colors = <<>>, !.plot_lines = <<>>,
                 !.df = df, !.keys = @ \cup {"plot", "plot_colors", "plot_lines", "df"}]
        ELSE e1

\* ------------------------------------------------------------------ state
\* eng    the engine;  prev  the engine before the last operation
\* bar    the bar of the last identify call;  calls, err  what that call
\*        invoked and raised;  op  the last operation
\* clock  the timestamp of the last bar;  pc, left  the position of run's loop
\* twin, twinCalls, twinErr, mode  a second engine (Snap, Fresh, Xfer, Mirror)
\* seen   what the bars given to eng were, recorded from the bars alone
NoBar == [dt |-> None, high |-> None, low |-> None, close |-> None]

Symbol == "SYM"

HookChoices == {<<TRUE, TRUE>>, <<FALSE, FALSE>>}

\* nothing observed yet
NoSeen == [high |-> None, low |-> None, before_high |-> None, before_low |-> None,
           ext |-> None, ext_dt |-> None, since |-> 0, event |-> FALSE]

\* The record of the bars given to identify (e is the engine before the call,
\* after the engine the call left):
\*   high, low     the highest high and lowest low of all bars given so far,
\*                 kept up to the call that starts the trend;
\*   before_high, before_low   the same over the bars before the last one;
\*   ext, ext_dt   the pullback extreme (lowest low when the call began in UP,
\*                 highest high when it began in DOWN) and its first timestamp
\*                 over the bars since the last call that began with no pivot
\*                 pending, which is the call that formed the pending pivot;
\*   since         the number of bars given after that call;
\*   event         a call has broken a pending pivot (close beyond it) or has
\*                 reversed the trend.
Observe(s, e, after, dt, high, low, close) ==
    LET restart == e.sph = None /\ e.spl = None
        old == IF restart THEN None ELSE s.ext
        side == IF e.trend = "UP" THEN low ELSE high
        better == IF e.trend = "UP" THEN side < old ELSE side > old
    IN  [high |-> IF e.trend # NoTrend THEN None
                  ELSE IF s.high = None \/ high > s.high THEN high ELSE s.high,
         low |-> IF e.trend # NoTrend THEN None
                 ELSE IF s.low = None \/ low < s.low THEN low ELSE s.low,
         before_high |-> IF e.trend # NoTrend THEN None ELSE s.high,
         before_low |-> IF e.trend # NoTrend THEN None ELSE s.low,
         ext |-> IF e.trend = NoTrend THEN None
                 ELSE IF old = None \/ better THEN side ELSE old,
         ext_dt |-> IF e.trend = NoTrend THEN None
                    ELSE IF old = None \/ better THEN dt ELSE s.ext_dt,
         since |-> IF restart THEN 0 ELSE s.since + 1,
         event |-> \/ s.event
                   \/ e.trend = "UP" /\ e.sph # None /\ close > e.sph
                   \/ e.trend = "DOWN" /\ e.spl # None /\ close < e.spl
                   \/ e.trend # NoTrend /\ after.trend # e.trend]

InitEngines ==
    {SetHooks(New(p, SidewaysDefault), h[1], h[2]) : p \in RetracePcts, h \in HookChoices}

Init ==
    /\ eng \in InitEngines
    /\ calls = <<>> /\ err = "none" /\ bar = NoBar
    /\ prev = eng /\ op = "new"
    /\ clock = 0 /\ pc = "idle" /\ left = 0
    /\ twin = eng /\ twinCalls = <<>> /\ twinErr = "none"
    /\ mode = "single"
    /\ seen = NoSeen

\* one identify call on eng with the next timestamp
Feed(b) ==
    LET dt == clock + 1
    IN  \E r \in {identify(eng, dt, b.high, b.low, b.close)} :
            /\ eng' = r.e /\ calls' = r.calls /\ err' = r.err
            /\ bar' = [dt |-> dt, high |-> b.high, low |-> b.low, close |-> b.close]
            /\ prev' = eng /\ op' = "identify" /\ clock' = dt
            /\ seen' = Observe(seen, eng, r.e, dt, b.high, b.low, b.close)

\* the caller calls identify directly
Process(b) ==
    /\ pc = "idle" /\ clock < MaxBars
    /\ mode \in {"single", "free"}
    /\ Feed(b)
    /\ UNCHANGED <<pc, left, twin, twinCalls, twinErr, mode>>

\* Swing.run(sym, df, plot_lines) up to its loop; df holds the next n bars.
\* run is called on the engine in whatever state it is: newly constructed,
\* reset, or holding the state that earlier identify and run calls left.
RunBegin(n, plot_lines) ==
    /\ pc = "idle" /\ clock + n <= MaxBars
    /\ mode = "single"
    /\ eng' = RunSetup(eng, Symbol, [bound |-> TRUE, first |-> clock, len |-> n], plot_lines)
    /\ prev' = eng /\ op' = "run"
    /\ calls' = <<>> /\ err' = "none" /\ bar' = NoBar
    /\ pc' = (IF n = 0 THEN "idle" ELSE "run") /\ left' = n
    /\ UNCHANGED <<clock, twin, twinCalls, twinErr, mode, seen>>

\* one iteration of run's loop; an exception of identify ends the run
RunStep(b) ==
    /\ pc = "run"
    /\ Feed(b)
    /\ left' = IF err' # "none" THEN 0 ELSE left - 1
    /\ pc' = IF left' = 0 THEN "idle" ELSE "run"
    /\ UNCHANGED <<twin, twinCalls, twinErr, mode>>

\* the caller calls reset
DoReset ==
    /\ pc = "idle" /\ mode = "single"
    /\ eng' = reset(eng)
    /\ prev' = eng /\ op' = "reset"
    /\ calls' = <<>> /\ err' = "none" /\ bar' = NoBar
    /\ seen' = NoSeen
    /\ UNCHANGED <<clock, pc, left, twin, twinCalls, twinErr, mode>>

\* the fields of TrendState, with the configuration
TrendState(e) ==
    [trend |-> e.trend, high |-> e.high, low |-> e.low,
     sph |-> e.sph, spl |-> e.spl, coc |-> e.coc,
     high_dt |-> e.high_dt, low_dt |-> e.low_dt,
     sph_dt |-> e.sph_dt, spl_dt |-> e.spl_dt, coc_dt |-> e.coc_dt,
     bars_since |-> e.bars_since,
     retrace_threshold |-> e.retrace_threshold,
     sideways_threshold |-> e.sideways_threshold]

\* the callbacks of one call, as the caller's hooks receive them
Events(c) == [i \in DOMAIN c |-> <<c[i].hook, c[i].args>>]

\* a newly constructed engine with the configuration and the hooks of e
Rebuilt(e) ==
    SetHooks(New(e.retrace_threshold, e.sideways_threshold), e.on_breakout, e.on_reversal)

\* one identify call on the second engine, with the same bar as Feed
FeedTwin(b) ==
    \E r \in {identify(twin, clock + 1, b.high, b.low, b.close)} :
        twin' = r.e /\ twinCalls' = r.calls /\ twinErr' = r.err

\* the same bar is given to both engines
ProcessBoth(b) ==
    /\ pc = "idle" /\ clock < MaxBars
    /\ mode \in {"resumed", "fresh"}
    /\ Feed(b) /\ FeedTwin(b)
    /\ UNCHANGED <<pc, left, mode>>

\* pack the engine and unpack the snapshot into a newly constructed engine
Resume ==
    /\ pc = "idle" /\ mode = "single"
    /\ twin' = unpack(Rebuilt(eng), pack(eng))
    /\ twinCalls' = <<>> /\ twinErr' = "none"
    /\ mode' = "resumed" /\ op' = "resume"
    /\ prev' = eng /\ calls' = <<>> /\ err' = "none" /\ bar' = NoBar
    /\ UNCHANGED <<eng, clock, pc, left, seen>>

\* reset the engine and construct a new one beside it
ResetBeside ==
    /\ pc = "idle" /\ mode \in {"single", "fresh"}
    /\ eng' = reset(eng)
    /\ twin' = Rebuilt(eng)
    /\ twinCalls' = <<>> /\ twinErr' = "none"
    /\ mode' = "fresh" /\ op' = "reset"
    /\ prev' = eng /\ calls' = <<>> /\ err' = "none" /\ bar' = NoBar
    /\ seen' = NoSeen
    /\ UNCHANGED <<clock, pc, left>>

\* the second engine, independent of the first, is given a bar
ProcessTwin(b) ==
    /\ mode = "free" /\ clock < MaxXferBars
    /\ FeedTwin(b)
    /\ clock' = clock + 1 /\ op' = "identify_twin"
    /\ UNCHANGED <<eng, calls, err, bar, prev, pc, left, mode, seen>>

\* twin.unpack(eng.pack())
Transfer ==
    /\ mode = "free"
    /\ twin' = unpack(twin, pack(eng))
    /\ op' = "unpack"
    /\ UNCHANGED <<eng, calls, err, bar, prev, clock, pc, left, twinCalls, twinErr, mode,
                   seen>>

\* identify and reset
Next ==
    \/ \E b \in Bars : Process(b)
    \/ DoReset

Spec == Init /\ [][Next]_vars

\* the bars of the run scenarios
RunBars == {b \in Bars : b.high \in RunPrices /\ b.low \in RunPrices}

\* identify, reset and run with annotation recording, in any order
NextRun ==
    \/ \E b \in RunBars : Process(b)
    \/ \E n \in 0..MaxDf, p \in BOOLEAN : RunBegin(n, p)
    \/ \E b \in RunBars : RunStep(b)
    \/ DoReset
    \/ \E b \in RunBars : ProcessBoth(b)
    \/ ResetBeside

SpecRun == Init /\ [][NextRun]_vars

\* a snapshot is taken at some point and resumed in a new engine
NextSnap ==
    \/ \E b \in Bars : Process(b)
    \/ DoReset
    \/ Resume
    \/ \E b \in Bars : ProcessBoth(b)

SpecSnap == Init /\ [][NextSnap]_vars

\* two engines of any configuration; one unpacks the other's snapshot
InitXfer ==
    /\ eng \in InitEngines /\ twin \in InitEngines
    /\ calls = <<>> /\ err = "none" /\ bar = NoBar
    /\ prev = eng /\ op = "new"
    /\ clock = 0 /\ pc = "idle" /\ left = 0
    /\ twinCalls = <<>> /\ twinErr = "none"
    /\ mode = "free"
    /\ seen = NoSeen

NextXfer ==
    \/ \E b \in Bars : (clock < MaxXferBars /\ Process(b))
    \/ \E b \in Bars : ProcessTwin(b)
    \/ Transfer

SpecXfer == InitXfer /\ [][NextXfer]_vars

\* a long run of bars in a narrow price range
SideBars == {b \in Bars : b.high \in SidePrices /\ b.low \in SidePrices}

\* the caller calls identify with a bar of the narrow range
ProcessSide(b) ==
    /\ pc = "idle" /\ clock < MaxSideBars
    /\ mode = "single"
    /\ Feed(b)
    /\ UNCHANGED <<pc, left, twin, twinCalls, twinErr, mode>>

NextSide == \E b \in SideBars : ProcessSide(b)

\* Swing() with both callbacks registered
InitSide ==
    /\ eng = SetHooks(New(DefaultRetracePct, SidewaysDefault), TRUE, TRUE)
    /\ calls = <<>> /\ err = "none" /\ bar = NoBar
    /\ prev = eng /\ op = "new"
    /\ clock = 0 /\ pc = "idle" /\ left = 0
    /\ twin = eng /\ twinCalls = <<>> /\ twinErr = "none"
    /\ mode = "single"
    /\ seen = NoSeen

SpecSide == InitSide /\ [][NextSide]_vars

\* the level about which prices are reflected: every price of Prices has its
\* reflection in Prices
MirrorK == MaxPrice + 1

\* the reflection of a bar: the high becomes the low and the low the high
ReflectBar(b) ==
    [high |-> MirrorK - b.low, low |-> MirrorK - b.high, close |-> MirrorK - b.close]

\* a bar is given to eng and its reflection, with the same timestamp, to twin
ProcessMirror(b) ==
    /\ pc = "idle" /\ clock < MaxBars
    /\ mode = "mirror"
    /\ Feed(b) /\ FeedTwin(ReflectBar(b))
    /\ UNCHANGED <<pc, left, mode>>

\* both engines are reset
ResetMirror ==
    /\ pc = "idle" /\ mode = "mirror"
    /\ eng' = reset(eng) /\ twin' = reset(twin)
    /\ twinCalls' = <<>> /\ twinErr' = "none"
    /\ prev' = eng /\ op' = "reset"
    /\ calls' = <<>> /\ err' = "none" /\ bar' = NoBar
    /\ seen' = NoSeen
    /\ UNCHANGED <<clock, pc, left, mode>>

\* two engines constructed alike with the retrace filter disabled
InitMirror ==
    /\ eng \in {SetHooks(New(None, SidewaysDefault), h[1], h[2]) : h \in HookChoices}
    /\ calls = <<>> /\ err = "none" /\ bar = NoBar
    /\ prev = eng /\ op = "new"
    /\ clock = 0 /\ pc = "idle" /\ left = 0
    /\ twin = eng /\ twinCalls = <<>> /\ twinErr = "none"
    /\ mode = "mirror"
    /\ seen = NoSeen

NextMirror ==
    \/ \E b \in Bars : ProcessMirror(b)
    \/ ResetMirror

SpecMirror == InitMirror /\ [][NextMirror]_vars

\* ------------------------------------------------------------------ claims
\* the last operation was an identify call that returned normally
Identified == op = "identify" /\ err = "none"

\* the last identify call reversed the trend
Reversed == Identified /\ prev.trend # NoTrend /\ eng.trend # prev.trend

\* the extremes since the pivot formed, the bar of the last call included
LowSince == IF prev.low = None \/ bar.low < prev.low THEN bar.low ELSE prev.low
HighSince == IF prev.high = None \/ bar.high > prev.high THEN bar.high ELSE prev.high

\* the last identify call saw a close beyond the pending pivot
BrokeUp == op = "identify" /\ prev.trend = "UP" /\ Truthy(prev.sph) /\ bar.close > prev.sph
BrokeDown == op = "identify" /\ prev.trend = "DOWN" /\ Truthy(prev.spl) /\ bar.close < prev.spl

\* the magnitude of the retracement fraction of that breakout is below the threshold
SmallRetraceUp ==
    Truthy(prev.retrace_threshold)
        /\ Abs(LowSince - prev.sph) * ThresholdDen < prev.retrace_threshold * prev.sph
SmallRetraceDown ==
    Truthy(prev.retrace_threshold)
        /\ Abs(HighSince - prev.spl) * ThresholdDen < prev.retrace_threshold * prev.spl

NoBreakoutCall == \A i \in DOMAIN calls : calls[i].hook # "on_breakout"

\* C1: an engine resumed from pack() in a newly constructed engine with the same
\* configuration and hooks has, after every bar of the continuation, the same
\* TrendState as the uninterrupted engine, the same events and the same outcome.
C1_SnapshotRoundTrip ==
    mode = "resumed" =>
        /\ TrendState(twin) = TrendState(eng)
        /\ Events(twinCalls) = Events(calls)
        /\ twinErr = err

\* C1 witness: over the continuation the resumed engine reversed and emitted an event
C1_Witness ==
    /\ mode = "resumed" /\ Reversed
    /\ Len(twinCalls) = 1 /\ twin.bars_since = 0 /\ prev.bars_since > 0

\* C2: after twin.unpack(eng.pack()) every TrendState field of twin equals that of
\* eng, whatever the state and the configuration of the two engines.
C2_UnpackOverwritesAll ==
    op = "unpack" => TrendState(twin) = TrendState(eng)

\* C3: reset() leaves every state field unset, the counter 0 and the annotations
\* (when the engine has an annotation list) empty, keeps the thresholds and the
\* callbacks, and afterwards the engine yields after every bar the same
\* TrendState, the same events (the symbol aside) and the same outcome as a newly
\* constructed engine with the same configuration and hooks.
C3_ResetAsNew ==
    /\ op = "reset" =>
          /\ eng.trend = NoTrend
          /\ \A f \in {"high", "low", "coc", "sph", "spl", "high_dt", "low_dt",
                        "coc_dt", "sph_dt", "spl_dt"} : eng[f] = None
          /\ eng.bars_since = 0
          /\ "plot_lines" \in eng.keys => eng.plot_lines = <<>>
          /\ eng.retrace_threshold = prev.retrace_threshold
          /\ eng.sideways_threshold = prev.sideways_threshold
          /\ eng.on_breakout = prev.on_breakout /\ eng.on_reversal = prev.on_reversal
    /\ mode = "fresh" /\ op = "identify" =>
          /\ TrendState(eng) = TrendState(twin)
          /\ Len(calls) = Len(twinCalls)
          /\ \A i \in DOMAIN calls :
                /\ calls[i].hook = twinCalls[i].hook
                /\ Tail(calls[i].args) = Tail(twinCalls[i].args)
          /\ err = twinErr

\* C4: sph is set only while trend is UP and spl only while trend is DOWN, so the
\* two are never set together.
C4_SingleExtreme ==
    /\ eng.sph # None => eng.trend = "UP"
    /\ eng.spl # None => eng.trend = "DOWN"
    /\ ~(eng.sph # None /\ eng.spl # None)

\* C4 witness: a reversal out of UP with a pivot pending
C4_Witness == Reversed /\ prev.sph # None /\ eng.trend = "DOWN"

\* C5: while trend is unset, coc, sph and spl are unset.
C5_TrendExclusivity ==
    eng.trend = NoTrend => eng.coc = None /\ eng.sph = None /\ eng.spl = None

\* C5 witness: reset of an engine that had a trend, a CoCh level and a pivot
C5_Witness ==
    /\ op = "reset" /\ eng.trend = NoTrend
    /\ prev.trend # NoTrend /\ prev.coc # None /\ (prev.sph # None \/ prev.spl # None)

\* C6: with a retrace threshold configured, a close beyond the pending pivot whose
\* retracement fraction has a magnitude below the threshold leaves coc and its
\* timestamp unchanged and invokes no on_breakout.
C6_RetraceFilter ==
    (BrokeUp /\ SmallRetraceUp) \/ (BrokeDown /\ SmallRetraceDown) =>
        /\ eng.coc = prev.coc /\ eng.coc_dt = prev.coc_dt
        /\ NoBreakoutCall

\* C6 witness: a filtered breakout with a nonzero retracement, the hook registered
C6_Witness ==
    /\ BrokeUp /\ SmallRetraceUp /\ LowSince # prev.sph
    /\ eng.on_breakout /\ eng.sph = None

\* C7: a bar that closes below coc in UP leaves trend DOWN, and a bar that closes
\* above coc in DOWN leaves trend UP, whatever the shape of the bar.
C7_CloseBeyondCocReverses ==
    Identified =>
        /\ (prev.trend = "UP" /\ prev.coc # None /\ bar.close < prev.coc)
              => eng.trend = "DOWN"
        /\ (prev.trend = "DOWN" /\ prev.coc # None /\ bar.close > prev.coc)
              => eng.trend = "UP"

\* C8 as stated: on a reversal on_reversal receives (symbol, timestamp, new trend,
\* close, old coc, old coc).
C8_ReversalArgsOldTwice ==
    Reversed /\ eng.on_reversal =>
        /\ Len(calls) = 1 /\ calls[1].hook = "on_reversal"
        /\ calls[1].args = <<eng.symbol, bar.dt, eng.trend, bar.close, prev.coc, prev.coc>>

\* C8 amended: on a reversal on_reversal receives (symbol, timestamp, new trend,
\* close, new coc, old coc): the fifth argument is the CoCh level in force after
\* the reversal, the sixth the level that was in force before the bar.
C8_ReversalArgs ==
    Reversed /\ eng.on_reversal =>
        /\ Len(calls) = 1 /\ calls[1].hook = "on_reversal"
        /\ calls[1].args = <<eng.symbol, bar.dt, eng.trend, bar.close, eng.coc, prev.coc>>

\* C8 witness: a reversal whose new CoCh level differs from the old one
C8_Witness ==
    /\ Reversed /\ eng.on_reversal /\ Len(calls) = 1
    /\ eng.coc # prev.coc /\ prev.coc # None

\* C9: an identify call invokes at most one callback, and the engine the callback
\* observes is the engine at the end of the call: pivot cleared, counter 0 and the
\* new coc for a breakout; the new trend and coc for a reversal.
C9_CallbackSeesFinalState ==
    op = "identify" =>
        /\ Len(calls) <= 1
        /\ \A i \in DOMAIN calls :
              /\ calls[i].seen = eng
              /\ eng.bars_since = 0 /\ eng.sph = None /\ eng.spl = None
              /\ calls[i].hook = "on_breakout" =>
                    eng.coc = calls[i].args[6] /\ eng.trend = prev.trend
              /\ calls[i].hook = "on_reversal" =>
                    eng.coc = calls[i].args[5] /\ eng.trend = calls[i].args[3]
                        /\ eng.trend # prev.trend

\* C9 witness: a breakout whose callback ran and which moved coc
C9_Witness ==
    /\ op = "identify" /\ Len(calls) = 1 /\ calls[1].hook = "on_breakout"
    /\ eng.coc # prev.coc /\ prev.bars_since > 0

\* C10: an identify call that fails with the configuration error of a missing bar
\* history leaves TrendState as it was before the call.
C10_ConfigErrorKeepsState ==
    op = "identify" /\ err = "ValueError" => TrendState(eng) = TrendState(prev)

\* no pivot is pending
NoPivot(e) == e.sph = None /\ e.spl = None

\* C11: the counter is 0 at the end of every identify call in which the close broke
\* a pending pivot (filtered or not) or the trend was reversed, and in every state
\* with no pivot pending the counter is 0 and is_sideways() is false.
C11_CounterZeroWithoutPivot ==
    /\ (op = "identify" /\ (BrokeUp \/ BrokeDown \/ Reversed)) => eng.bars_since = 0
    /\ NoPivot(eng) => eng.bars_since = 0 /\ ~is_sideways(eng)

\* C11 witness: a breakout while the counter was running
C11_Witness ==
    /\ BrokeUp /\ prev.bars_since >= 1
    /\ NoPivot(eng) /\ eng.bars_since = 0

\* the last identify call began with a trend, kept it, broke no pending pivot and
\* formed no pivot
QuietBar ==
    /\ op = "identify" /\ prev.trend # NoTrend /\ eng.trend = prev.trend
    /\ ~BrokeUp /\ ~BrokeDown
    /\ ~(NoPivot(prev) /\ ~NoPivot(eng))

\* C12 as stated: after a breakout or a reversal, every later bar that forms no
\* pivot and triggers no breakout and no reversal increases the counter by 1, the
\* bars that only extend the impulse while no pivot is pending included.
C12_CounterAdvancesEveryBar ==
    seen.event /\ QuietBar => eng.bars_since = prev.bars_since + 1

\* C12 amended: a bar that forms no pivot and triggers no breakout and no reversal
\* increases the counter by 1 if a pivot was pending when it arrived; if none was
\* pending (the bar only extends the impulse) the counter stays 0.
C12_CounterAdvancesWhilePending ==
    QuietBar =>
        IF NoPivot(prev)
        THEN prev.bars_since = 0 /\ eng.bars_since = 0
        ELSE eng.bars_since = prev.bars_since + 1

\* C12 witness: after a reversal, a bar that only extends the impulse
C12_Witness ==
    /\ seen.event /\ QuietBar /\ NoPivot(prev)
    /\ (bar.high > prev.high \/ bar.low < prev.low)
    /\ eng.bars_since = 0

\* the last operation was an identify call that left a pivot pending: the call
\* formed it without reversing, or it was pending and was neither broken nor lost
\* to a reversal; seen.since is the number of bars given after the forming call
PivotPending ==
    op = "identify" /\ ~NoPivot(eng) /\ eng.sideways_threshold = SidewaysDefault

\* C13 as stated: the counter is 0 at the end of the call that forms a pivot and n
\* after n further bars that leave it pending; with the threshold 20 is_sideways()
\* is false after each of the first 20 such bars and true after the 21st.
C13_CounterFromZero ==
    PivotPending =>
        /\ eng.bars_since = seen.since
        /\ is_sideways(eng) <=> seen.since > SidewaysDefault

\* C13 amended: the counter is 1 at the end of the call that forms a pivot and
\* n + 1 after n further bars that leave it pending; with the threshold 20
\* is_sideways() is false after each of the first 19 such bars and true after the
\* 20th, where the counter is 21.
C13_CounterFromOne ==
    PivotPending =>
        /\ eng.bars_since = seen.since + 1
        /\ is_sideways(eng) <=> seen.since >= SidewaysDefault

\* C13 witness: the 20th bar after the forming call, where is_sideways() turns true
C13_Witness ==
    /\ PivotPending /\ seen.since = SidewaysDefault
    /\ eng.bars_since = SidewaysDefault + 1
    /\ is_sideways(eng) /\ ~is_sideways(prev)

\* the extreme on the side of the trend, and the opposite one
TrendSide(e) == IF e.trend = "UP" THEN e.high ELSE e.low
Opposite(e) == IF e.trend = "UP" THEN e.low ELSE e.high
OppositeDt(e) == IF e.trend = "UP" THEN e.low_dt ELSE e.high_dt

\* the opposite extreme of e, read in the engine f
OppositeIn(e, f) == IF e.trend = "UP" THEN f.low ELSE f.high

\* the last identify call formed a pivot and left it pending
FormedPivot == op = "identify" /\ NoPivot(prev) /\ ~NoPivot(eng)

\* C14: with a trend, the trend-side extreme is set, and the opposite extreme is
\* unset only at the end of a call that reversed the trend; a call that forms a
\* pivot re-seeds the opposite extreme from its own bar, and the extreme a reversal
\* left unset is set at the end of the next call.
C14_DefinedExtremes ==
    /\ eng.trend # NoTrend =>
          /\ TrendSide(eng) # None
          /\ Opposite(eng) = None => Reversed
    /\ FormedPivot =>
          /\ Opposite(eng) = (IF eng.trend = "UP" THEN bar.low ELSE bar.high)
          /\ OppositeDt(eng) = bar.dt
    /\ (op = "identify" /\ prev.trend # NoTrend /\ Opposite(prev) = None) =>
          OppositeIn(prev, eng) # None

\* C14 witness: the bar after a reversal to DOWN forms spl and re-seeds high
C14_Witness ==
    /\ FormedPivot /\ prev.trend = "DOWN" /\ prev.high = None
    /\ eng.trend = "DOWN" /\ eng.spl # None /\ eng.high = bar.high

\* the last call began in UP with coc set and its bar made no new high, did not
\* close above a pending sph and closed below coc; and the mirror case in DOWN
ReversalBarUp ==
    /\ op = "identify" /\ prev.trend = "UP" /\ prev.coc # None
    /\ bar.high <= prev.high
    /\ ~(prev.sph # None /\ bar.close > prev.sph)
    /\ bar.close < prev.coc
ReversalBarDown ==
    /\ op = "identify" /\ prev.trend = "DOWN" /\ prev.coc # None
    /\ bar.low >= prev.low
    /\ ~(prev.spl # None /\ bar.close < prev.spl)
    /\ bar.close > prev.coc

\* on_reversal, when registered, was invoked once, and nothing else was invoked
OneReversalCall ==
    IF eng.on_reversal THEN Len(calls) = 1 /\ calls[1].hook = "on_reversal"
    ELSE calls = <<>>

\* C15: such a bar in UP leaves trend DOWN, coc the high tracked before the call
\* with its timestamp, high and sph unset, low the bar's low at the bar's
\* timestamp, the counter 0, and invokes on_reversal once; in DOWN it leaves trend
\* UP, coc the tracked low, low and spl unset and high the bar's high.
C15_ReversalTransition ==
    /\ ReversalBarUp =>
          /\ eng.trend = "DOWN"
          /\ eng.coc = prev.high /\ eng.coc_dt = prev.high_dt
          /\ eng.high = None /\ eng.sph = None
          /\ eng.low = bar.low /\ eng.low_dt = bar.dt
          /\ eng.bars_since = 0
          /\ OneReversalCall
    /\ ReversalBarDown =>
          /\ eng.trend = "UP"
          /\ eng.coc = prev.low /\ eng.coc_dt = prev.low_dt
          /\ eng.low = None /\ eng.spl = None
          /\ eng.high = bar.high /\ eng.high_dt = bar.dt
          /\ eng.bars_since = 0
          /\ OneReversalCall

\* C15 witness: a reversal out of DOWN with spl pending, seen by the callback
C15_Witness ==
    /\ ReversalBarDown /\ prev.spl # None /\ prev.bars_since > 0
    /\ eng.on_reversal /\ Len(calls) = 1
    /\ eng.coc = prev.low /\ eng.coc # bar.high

\* the retracement to the pullback extreme seen since the pivot formed is filtered
SeenFiltered(pivot) ==
    Truthy(prev.retrace_threshold)
        /\ Abs(seen.ext - pivot) * ThresholdDen < prev.retrace_threshold * pivot

\* a close beyond the pending pivot whose retracement is not filtered
QualifiesUp == BrokeUp /\ ~SeenFiltered(prev.sph)
QualifiesDown == BrokeDown /\ ~SeenFiltered(prev.spl)

\* on_breakout, when registered, was invoked once with (symbol, timestamp, trend,
\* close, the old pivot, the new coc), and nothing else was invoked
OneBreakoutCall(pivot) ==
    IF eng.on_breakout
    THEN /\ Len(calls) = 1 /\ calls[1].hook = "on_breakout"
         /\ calls[1].args = <<eng.symbol, bar.dt, eng.trend, bar.close, pivot, eng.coc>>
    ELSE calls = <<>>

\* C16: a qualifying breakout in UP leaves sph unset, the counter 0, trend UP, coc
\* the lowest bar low since the pivot formed (forming bar and breakout bar included)
\* with its timestamp, and invokes on_breakout once with the old sph and the new
\* coc; in DOWN it leaves spl unset, coc the highest bar high since the pivot formed
\* and invokes on_breakout with the old spl and the new coc.
C16_QualifyingBreakout ==
    /\ QualifiesUp =>
          /\ eng.sph = None /\ eng.bars_since = 0 /\ eng.trend = "UP"
          /\ eng.coc = seen.ext /\ eng.coc_dt = seen.ext_dt
          /\ OneBreakoutCall(prev.sph)
    /\ QualifiesDown =>
          /\ eng.spl = None /\ eng.bars_since = 0 /\ eng.trend = "DOWN"
          /\ eng.coc = seen.ext /\ eng.coc_dt = seen.ext_dt
          /\ OneBreakoutCall(prev.spl)

\* C16 witness: a breakout in DOWN with the filter configured that moves coc to a
\* high made before the breakout bar
C16_Witness ==
    /\ QualifiesDown /\ Truthy(prev.retrace_threshold)
    /\ eng.on_breakout /\ Len(calls) = 1
    /\ eng.coc # prev.coc /\ seen.ext_dt < bar.dt

\* the hooks invoked by the last call
Hooks == {calls[i].hook : i \in DOMAIN calls}

\* C17: a call whose close breaks a pending pivot, filtered or not, forms no pivot,
\* performs no reversal and keeps the trend, so sph and spl are both unset at its
\* end; no call invokes both on_breakout and on_reversal.
C17_BreakoutIsTerminal ==
    /\ (BrokeUp \/ BrokeDown) =>
          /\ eng.trend = prev.trend
          /\ NoPivot(eng)
          /\ "on_reversal" \notin Hooks
    /\ op = "identify" => ~({"on_breakout", "on_reversal"} \subseteq Hooks)

\* C17 witness: a breakout bar whose high was already taken as the tracked high
\* while the pivot was pending, so that the formation branch, if the call went on,
\* would form a pivot at once
C17_Witness ==
    /\ BrokeUp /\ ~SmallRetraceUp /\ eng.high = bar.high /\ bar.high > prev.high
    /\ Hooks = {"on_breakout"} /\ NoPivot(eng) /\ eng.trend = "UP"

\* the reflection of a price and of a trend
Refl(x) == IF x = None THEN None ELSE MirrorK - x
Flip(t) == IF t = "UP" THEN "DOWN" ELSE IF t = "DOWN" THEN "UP" ELSE t

\* C18: with the retrace filter disabled, after every bar the engine given the
\* reflected bars is in the reflection of the state of the engine given the bars
\* (UP and DOWN swapped, high and low, sph and spl swapped and reflected, coc
\* reflected, the same counter), and both emitted the same kind of event.
C18_DownMirrorsUp ==
    mode = "mirror" =>
        /\ twin.trend = Flip(eng.trend)
        /\ twin.high = Refl(eng.low) /\ twin.low = Refl(eng.high)
        /\ twin.sph = Refl(eng.spl) /\ twin.spl = Refl(eng.sph)
        /\ twin.coc = Refl(eng.coc)
        /\ twin.bars_since = eng.bars_since
        /\ Len(twinCalls) = Len(calls)
        /\ \A i \in DOMAIN calls : twinCalls[i].hook = calls[i].hook

\* C18 witness: a breakout in DOWN whose reflection is a breakout in UP
C18_Witness ==
    /\ mode = "mirror" /\ BrokeDown /\ eng.coc # prev.coc
    /\ Len(calls) = 1 /\ calls[1].hook = "on_breakout"
    /\ twin.trend = "UP" /\ twin.coc = MirrorK - eng.coc

\* the last identify call began with no trend
UnsetBar == op = "identify" /\ prev.trend = NoTrend

\* C19: in the unset phase the first bar only seeds high and low; after every bar
\* high and low are the highest high and the lowest low of all bars given so far;
\* the trend becomes UP exactly on a close above the highest high of the earlier
\* bars, with coc the lowest low of the earlier bars and high the bar's high, and
\* DOWN exactly on a close below their lowest low, with coc their highest high and
\* low the bar's low; no callback is invoked.
C19_UnsetPhase ==
    UnsetBar =>
        /\ calls = <<>>
        /\ eng.high = seen.high /\ eng.low = seen.low
        /\ seen.before_high = None =>
              /\ eng.trend = NoTrend
              /\ eng.high = bar.high /\ eng.low = bar.low
        /\ seen.before_high # None =>
              /\ eng.trend = "UP" <=> bar.close > seen.before_high
              /\ eng.trend = "DOWN" <=> bar.close < seen.before_low
              /\ eng.trend = "UP" => eng.coc = seen.before_low /\ eng.high = bar.high
              /\ eng.trend = "DOWN" => eng.coc = seen.before_high /\ eng.low = bar.low

\* C19 witness: after two bars that each widened the envelope, a bar that closes
\* below it and whose high is above it; the callbacks are registered
C19_Witness ==
    /\ UnsetBar /\ eng.trend = "DOWN" /\ eng.on_breakout /\ eng.on_reversal
    /\ prev.high_dt # prev.low_dt
    /\ bar.high > seen.before_high /\ eng.coc = seen.before_high
    /\ eng.high = bar.high

\* C20: with a trend coc is set, every value an identify call gives to coc is a
\* set extreme, and no identify call returns a trend to unset.
C20_CocExistsWithTrend ==
    /\ eng.trend \in {"UP", "DOWN"} => eng.coc # None /\ eng.coc_dt # None
    /\ op = "identify" /\ prev.trend # NoTrend => eng.trend # NoTrend
    /\ op = "identify" /\ eng.coc # prev.coc =>
          eng.coc \in ({prev.high, prev.low, bar.high, bar.low} \ {None})

\* C20 witness: a second reversal on the bar after a reversal, which takes coc from
\* the low that the first one seeded
C20_Witness ==
    /\ Reversed /\ prev.trend = "DOWN" /\ prev.high = None
    /\ eng.trend = "UP" /\ eng.coc = prev.low /\ eng.coc # prev.coc

====
